---- MODULE Spec2Model ----
(***************************************************************************)
(* Langium's template node builder: expandToNode and joinToNode            *)
(* (packages/langium/src/generator/template-node.ts), together with the    *)
(* generator node tree and its serialization that the builder relies on.   *)
(*                                                                         *)
(* A JavaScript string is a sequence of one-character strings.  A value    *)
(* of type Generated, a generator node and a marker is a record with a     *)
(* field "kind".                                                           *)
(***************************************************************************)
EXTENDS Integers, Sequences, FiniteSets, TLC

VARIABLES
    staticParts,     \* expandToNode: the static parts of the tagged template
    substitutions,   \* expandToNode: the substitutions, one less than parts
    pc,              \* position of the running call
    templateProps,   \* result of findIndentationAndTemplateStructure
    splitAndMerged,  \* the flat list of strings, markers and substitutions
    partIdx,         \* forEach index i over staticParts (0-based, as in JS)
    res,             \* the reduce accumulator {node, indented} of compose
    segIdx,          \* reduce index i over splitAndMerged (0-based)
    output,          \* serialization of the returned node
    iterable,        \* joinToNode: the elements
    toGenerated,     \* joinToNode: the chosen callback
    options,         \* joinToNode: prefix, suffix, separator, appendNewLineIfNotEmpty
    index,           \* reduceWithIsLast: index
    result,          \* reduceWithIsLast: result (the Composite or undefined)
    calls            \* the (index, isLast) pairs handed to the callback so far

vars == <<staticParts, substitutions, pc, templateProps, splitAndMerged, partIdx,
          res, segIdx, output, iterable, toGenerated, options, index, result, calls>>

-----------------------------------------------------------------------------
(* Bounds of the checked instances *)

MaxLen == 4
MaxItems == 3

-----------------------------------------------------------------------------
(* Characters and JavaScript string operations *)

SP == " "
LF == "\n"
CR == "\r"
TAB == "\t"

IsWs(c) == c \in {SP, LF, CR, TAB}

Min(a, b) == IF a < b THEN a ELSE b

\* s.substring(n)
Substring(s, n) == SubSeq(s, Min(n, Len(s)) + 1, Len(s))

\* s.substring(0, n)
Prefix(s, n) == SubSeq(s, 1, Min(n, Len(s)))

\* s.startsWith(p)
StartsWith(s, p) == Len(p) <= Len(s) /\ SubSeq(s, 1, Len(p)) = p

RECURSIVE TrimLeft(_)
TrimLeft(s) == IF s # <<>> /\ IsWs(Head(s)) THEN TrimLeft(Tail(s)) ELSE s

RECURSIVE TrimRight(_)
TrimRight(s) ==
    IF s # <<>> /\ IsWs(s[Len(s)]) THEN TrimRight(SubSeq(s, 1, Len(s) - 1)) ELSE s

\* s.trim()
Trim(s) == TrimRight(TrimLeft(s))

\* ''.padStart(n)
RECURSIVE PadStart(_)
PadStart(n) == IF n <= 0 THEN <<>> ELSE <<SP>> \o PadStart(n - 1)

HasNonWhitespace(s) == \E k \in 1..Len(s) : ~IsWs(s[k])

\* s.split(NEWLINE_REGEXP): the pieces of s between line breaks; a line
\* break is "\r\n", "\r" or "\n".
RECURSIVE SplitFrom(_, _, _)
SplitFrom(s, k, cur) ==
    IF k > Len(s) THEN <<cur>>
    ELSE IF s[k] = CR /\ k < Len(s) /\ s[k + 1] = LF
         THEN <<cur>> \o SplitFrom(s, k + 2, <<>>)
    ELSE IF s[k] = CR \/ s[k] = LF
         THEN <<cur>> \o SplitFrom(s, k + 1, <<>>)
    ELSE SplitFrom(s, k + 1, Append(cur, s[k]))

SplitLines(s) == SplitFrom(s, 1, <<>>)

\* parts.join('_')
RECURSIVE JoinParts(_)
JoinParts(parts) ==
    IF Len(parts) = 0 THEN <<>>
    ELSE IF Len(parts) = 1 THEN parts[1]
    ELSE parts[1] \o <<"_">> \o JoinParts(Tail(parts))

\* number of leading space characters of a line
RECURSIVE LeadingSpaces(_)
LeadingSpaces(s) ==
    IF s # <<>> /\ Head(s) = SP THEN 1 + LeadingSpaces(Tail(s)) ELSE 0

\* findIndentation(lines): the longest run of leading spaces common to all
\* the lines of non-zero length; 0 when there is no such line.
FindIndentation(lines) ==
    LET ks == {k \in 1..Len(lines) : Len(lines[k]) # 0}
    IN  IF ks = {} THEN 0
        ELSE CHOOSE m \in {LeadingSpaces(lines[k]) : k \in ks} :
                \A k \in ks : m <= LeadingSpaces(lines[k])

-----------------------------------------------------------------------------
(* Generated values, generator nodes and the markers *)

Undefined == [kind |-> "undefined"]
Null == [kind |-> "null"]
Str(s) == [kind |-> "string", text |-> s]
NewLineNode(c) == [kind |-> "newline", ifNotEmpty |-> c]
CompositeNode(c) == [kind |-> "composite", contents |-> c]
IndentNode(ind, imm, c) ==
    [kind |-> "indent", indentation |-> ind, indentImmediately |-> imm, contents |-> c]

NEWLINE == [kind |-> "NEWLINE"]
UNDEFINED_SEGMENT == [kind |-> "UNDEFINED_SEGMENT"]

isNewLineMarker(x) == x.kind = "NEWLINE"
isUndefinedSegmentMarker(x) == x.kind = "UNDEFINED_SEGMENT"
isString(x) == x.kind = "string"
isGeneratorNode(x) == x.kind \in {"composite", "indent", "newline"}

\* String(v)
ToJsString(v) ==
    CASE v.kind = "string" -> v.text
      [] v.kind = "undefined" -> <<"u", "n", "d", "e", "f", "i", "n", "e", "d">>
      [] v.kind = "null" -> <<"n", "u", "l", "l">>

\* node.append(x): an absent value is a no-op
AppendTo(node, x) ==
    IF x.kind = "undefined" THEN node
    ELSE [node EXCEPT !.contents = Append(@, x)]

\* node.appendIf(cond, x)
AppendIf(node, cond, x) == IF cond THEN AppendTo(node, x) ELSE node

appendNewLine(node) == AppendTo(node, NewLineNode(FALSE))
appendNewLineIfNotEmpty(node) == AppendTo(node, NewLineNode(TRUE))
appendNewLineIfNotEmptyIf(node, cond) ==
    IF cond THEN appendNewLineIfNotEmpty(node) ELSE node

-----------------------------------------------------------------------------
(* Serialization of a generator node *)

InitCtx ==
    [out |-> <<>>, indentStack |-> <<>>, atLineStart |-> TRUE,
     currentLineHasContent |-> FALSE]

RECURSIVE ActiveIndent(_)
ActiveIndent(stack) ==
    IF stack = <<>> THEN <<>>
    ELSE (IF Head(stack).armed THEN Head(stack).indentation ELSE <<>>)
         \o ActiveIndent(Tail(stack))

\* a piece of text without line breaks
EmitPiece(ctx, s) ==
    IF s = <<>> THEN ctx
    ELSE [ctx EXCEPT
            !.out = @ \o (IF ctx.atLineStart THEN ActiveIndent(ctx.indentStack)
                          ELSE <<>>) \o s,
            !.atLineStart = FALSE,
            !.currentLineHasContent = @ \/ HasNonWhitespace(s)]

EmitNewLine(ctx) ==
    [ctx EXCEPT
        !.out = Append(@, LF),
        !.atLineStart = TRUE,
        !.currentLineHasContent = FALSE,
        !.indentStack = [k \in 1..Len(@) |-> [@[k] EXCEPT !.armed = TRUE]]]

RECURSIVE EmitPieces(_, _, _)
EmitPieces(ctx, pieces, k) ==
    IF k > Len(pieces) THEN ctx
    ELSE EmitPieces(EmitPiece(IF k = 1 THEN ctx ELSE EmitNewLine(ctx), pieces[k]),
                    pieces, k + 1)

RECURSIVE ProcessNode(_, _)
RECURSIVE ProcessContents(_, _)

ProcessIndent(ctx, n) ==
    LET childEmpty == ProcessContents(InitCtx, n.contents).out = <<>>
        c1 == IF n.indentImmediately /\ ~ctx.atLineStart /\ ~childEmpty
              THEN [ctx EXCEPT !.out = @ \o n.indentation]
              ELSE ctx
        c2 == [c1 EXCEPT !.indentStack =
                 Append(@, [indentation |-> n.indentation,
                            armed |-> n.indentImmediately])]
        c3 == ProcessContents(c2, n.contents)
    IN  [c3 EXCEPT !.indentStack = SubSeq(@, 1, Len(@) - 1)]

ProcessNode(ctx, n) ==
    CASE n.kind = "string" -> EmitPieces(ctx, SplitLines(n.text), 1)
      [] n.kind = "newline" ->
            IF n.ifNotEmpty /\ ~ctx.currentLineHasContent THEN ctx
            ELSE EmitNewLine(ctx)
      [] n.kind = "composite" -> ProcessContents(ctx, n.contents)
      [] n.kind = "indent" -> ProcessIndent(ctx, n)

ProcessContents(ctx, contents) ==
    IF contents = <<>> THEN ctx
    ELSE ProcessContents(ProcessNode(ctx, Head(contents)), Tail(contents))

Serialize(node) == ProcessNode(InitCtx, node).out

\* node.isEmpty()
IsEmpty(node) == Serialize(node) = <<>>

-----------------------------------------------------------------------------
(* expandToNode, first part: findIndentationAndTemplateStructure *)

NoProps ==
    [indentation |-> 0, omitFirstLine |-> FALSE, omitLastLine |-> FALSE,
     trimLastLine |-> FALSE, threw |-> FALSE]

\* IsNonAdjusted without its first case, lines.length === 1
IsNonAdjustedMultiLineOnly(lines) ==
    \/ (Len(lines) # 0 /\ Len(Trim(lines[1])) # 0)
    \/ (Len(lines) = 2 /\ Len(Trim(lines[2])) = 0)

\* The branch for templates that are not adjusted: one line, a non-blank
\* first line, or two lines of which the second is blank.
IsNonAdjusted(lines) ==
    \/ Len(lines) = 1
    \/ (Len(lines) # 0 /\ Len(Trim(lines[1])) # 0)
    \/ (Len(lines) = 2 /\ Len(Trim(lines[2])) = 0)

\* sliced: the lines the indentation is computed from
SlicedLines(lines, omitFirstLine, omitLastLine) ==
    LET s1 == IF omitFirstLine THEN Tail(lines) ELSE lines
        s2 == IF omitLastLine THEN SubSeq(s1, 1, Len(s1) - 1) ELSE s1
    IN  SelectSeq(s2, LAMBDA e : Len(e) # 0)

\* threw: sliced[0] is undefined where sliced[0].substring(..) is evaluated
\* (a TypeError).
FindIndentationAndTemplateStructure(parts) ==
    LET lines == SplitLines(JoinParts(parts))
        n == Len(lines)
        omitFirstLine == n > 1 /\ Len(Trim(lines[1])) = 0
        omitLastLine == omitFirstLine /\ n > 1 /\ Len(Trim(lines[n])) = 0
    IN  IF IsNonAdjusted(lines)
        THEN [indentation |-> 0,
              omitFirstLine |-> omitFirstLine,
              omitLastLine |-> omitLastLine,
              trimLastLine |-> (n # 1 /\ Len(Trim(lines[n])) = 0),
              threw |-> FALSE]
        ELSE LET sliced == SlicedLines(lines, omitFirstLine, omitLastLine)
                 indentation == FindIndentation(sliced)
             IN  IF omitLastLine /\ ~(Len(lines[n]) < indentation) /\ Len(sliced) = 0
                 THEN [NoProps EXCEPT !.threw = TRUE]
                 ELSE [indentation |-> indentation,
                       omitFirstLine |-> omitFirstLine,
                       omitLastLine |->
                           (omitLastLine /\
                              (\/ Len(lines[n]) < indentation
                               \/ ~StartsWith(lines[n], Prefix(sliced[1], indentation)))),
                       trimLastLine |-> FALSE,
                       threw |-> FALSE]

-----------------------------------------------------------------------------
(* expandToNode, second part: splitTemplateLinesAndMergeWithSubstitions *)

\* StripLine without the case j === 0
StripLineEveryPiece(e, j, indentation) ==
    IF Len(e) < indentation THEN e ELSE Substring(e, indentation)

\* .map((e, j) => j === 0 || e.length < indentation ? e : e.substring(indentation))
StripLine(e, j, indentation) ==
    IF j = 0 \/ Len(e) < indentation THEN e ELSE Substring(e, indentation)

\* one step of the reduce over the lines of the initial template segment
ReduceInitial(acc, line, j, omitFirstLine) ==
    IF j = 0 THEN (IF omitFirstLine THEN <<>> ELSE <<Str(line)>>)
    ELSE IF j = 1 /\ Len(acc) = 0 THEN <<Str(line)>>
    ELSE acc \o <<NEWLINE, Str(line)>>

\* one step of the reduce over the lines of a remaining template segment
ReduceRemaining(acc, line, j) ==
    IF j = 0 THEN <<Str(line)>> ELSE acc \o <<NEWLINE, Str(line)>>

\* the reduce over lines[1..k]; i is the 0-based index of the segment
RECURSIVE ReduceLines(_, _, _, _)
ReduceLines(lines, k, i, props) ==
    IF k = 0 THEN <<>>
    ELSE LET acc == ReduceLines(lines, k - 1, i, props)
             line == StripLine(lines[k], k - 1, props.indentation)
         IN  IF i = 0 THEN ReduceInitial(acc, line, k - 1, props.omitFirstLine)
             ELSE ReduceRemaining(acc, line, k - 1)

\* what .concat(..) appends after segment i
SubstitutionItems(substs, i) ==
    IF i < Len(substs)
    THEN LET v == substs[i + 1]
         IN  IF isGeneratorNode(v) THEN <<v>>
             ELSE IF v.kind # "undefined" THEN <<CompositeNode(<<Str(ToJsString(v))>>)>>
             ELSE <<UNDEFINED_SEGMENT>>
    ELSE <<>>

\* the items pushed for segment i (0-based)
SplitPart(parts, substs, i, props) ==
    LET lines == SplitLines(parts[i + 1])
        reduced == ReduceLines(lines, Len(lines), i, props)
        kept == SelectSeq(reduced, LAMBDA e : ~(isString(e) /\ Len(e.text) = 0))
    IN  kept \o SubstitutionItems(substs, i)

\* the handling of the last item, after the forEach
TrimLastItem(sm, props) ==
    LET n == Len(sm)
    IN  IF /\ (props.omitLastLine \/ props.trimLastLine)
           /\ n # 0
           /\ isString(sm[n])
           /\ Len(Trim(sm[n].text)) = 0
        THEN IF props.omitFirstLine /\ n # 1 /\ isNewLineMarker(sm[n - 1])
             THEN SubSeq(sm, 1, n - 2)
             ELSE SubSeq(sm, 1, n - 1)
        ELSE sm

-----------------------------------------------------------------------------
(* expandToNode, third part: composeFinalGeneratorNode *)

\* res.indented is the position in res.node.contents of the IndentNode that
\* is registered for the current line, 0 for undefined.
InitRes == [node |-> CompositeNode(<<>>), indented |-> 0]

\* NewLineFor without the case of a conditional NewLine
NewLineForUnconditional(sm, i) == NewLineNode(FALSE)

\* the NewLine appended for the NEWLINE marker at index i
NewLineFor(sm, i) ==
    IF i = 0 \/ isNewLineMarker(sm[i]) \/ isString(sm[i])
    THEN NewLineNode(FALSE)
    ELSE NewLineNode(TRUE)

\* IndentOf taking the width of the whole segment, the column that follows it
IndentOfColumn(sm, i) ==
    LET segment == sm[i + 1]
    IN  IF (i = 0 \/ isNewLineMarker(sm[i])) /\ isString(segment) /\ Len(segment.text) # 0
        THEN PadStart(Len(segment.text))
        ELSE <<>>

\* const indent = ...
IndentOf(sm, i) ==
    LET segment == sm[i + 1]
    IN  IF (i = 0 \/ isNewLineMarker(sm[i])) /\ isString(segment) /\ Len(segment.text) # 0
        THEN PadStart(Len(segment.text) - Len(TrimLeft(segment.text)))
        ELSE <<>>

\* ComposeStep with a NEWLINE marker that leaves the registered IndentNode open
ComposeStepKeepingIndent(r, sm, i) ==
    LET segment == sm[i + 1]
    IN  IF isUndefinedSegmentMarker(segment) THEN r
        ELSE IF isNewLineMarker(segment)
        THEN [node |-> AppendTo(r.node, NewLineFor(sm, i)), indented |-> r.indented]
        ELSE LET indent == IndentOf(sm, i)
             IN  IF r.indented # 0
                 THEN [node |-> [r.node EXCEPT !.contents[r.indented] =
                                    AppendTo(@, segment)],
                       indented |-> r.indented]
                 ELSE IF Len(indent) # 0
                 THEN [node |-> AppendTo(r.node,
                                    IndentNode(indent, FALSE, <<segment>>)),
                       indented |-> Len(r.node.contents) + 1]
                 ELSE [node |-> AppendTo(r.node, segment), indented |-> 0]

\* the reducer: accumulator r, the segment at index i (0-based)
ComposeStep(r, sm, i) ==
    LET segment == sm[i + 1]
    IN  IF isUndefinedSegmentMarker(segment) THEN r
        ELSE IF isNewLineMarker(segment)
        THEN [node |-> AppendTo(r.node, NewLineFor(sm, i)), indented |-> 0]
        ELSE LET indent == IndentOf(sm, i)
             IN  IF r.indented # 0
                 THEN [node |-> [r.node EXCEPT !.contents[r.indented] =
                                    AppendTo(@, segment)],
                       indented |-> r.indented]
                 ELSE IF Len(indent) # 0
                 THEN [node |-> AppendTo(r.node,
                                    IndentNode(indent, FALSE, <<segment>>)),
                       indented |-> Len(r.node.contents) + 1]
                 ELSE [node |-> AppendTo(r.node, segment), indented |-> 0]

RECURSIVE ComposeFrom(_, _, _)
ComposeFrom(r, sm, i) ==
    IF i >= Len(sm) THEN r ELSE ComposeFrom(ComposeStep(r, sm, i), sm, i + 1)

composeFinalGeneratorNode(sm) == ComposeFrom(InitRes, sm, 0).node

-----------------------------------------------------------------------------
(* Templates.  A template is written as a sequence of symbols, as in the   *)
(* source text of a tagged template literal: a symbol is a character or a  *)
(* substitution.                                                           *)

\* a node that serializes to two lines
MultiLine == CompositeNode(<<Str(<<"b">>), NewLineNode(FALSE), Str(<<"c">>)>>)

\* a node that serializes to "one\ntwo"
OneTwo ==
    CompositeNode(<<Str(<<"o", "n", "e">>), NewLineNode(FALSE), Str(<<"t", "w", "o">>)>>)

Holes == {"${undefined}", "${x}", "${m}", "${e}", "${null}", "${onetwo}"}

HoleValue(h) ==
    CASE h = "${undefined}" -> Undefined
      [] h = "${x}" -> Str(<<"X">>)
      [] h = "${m}" -> MultiLine
      [] h = "${e}" -> Str(<<>>)
      [] h = "${null}" -> Null
      [] h = "${onetwo}" -> OneTwo

RECURSIVE PartsFrom(_, _, _)
PartsFrom(t, k, cur) ==
    IF k > Len(t) THEN <<cur>>
    ELSE IF t[k] \in Holes THEN <<cur>> \o PartsFrom(t, k + 1, <<>>)
    ELSE PartsFrom(t, k + 1, Append(cur, t[k]))

\* the static parts and the substitutions the tag function receives
PartsOf(t) == PartsFrom(t, 1, <<>>)

RECURSIVE SubstsOf(_)
SubstsOf(t) ==
    IF t = <<>> THEN <<>>
    ELSE (IF Head(t) \in Holes THEN <<HoleValue(Head(t))>> ELSE <<>>) \o SubstsOf(Tail(t))

\* the symbols of the enumerated templates
Symbols == {SP, LF, "a", "${undefined}", "${x}", "${m}"}

EnumeratedTemplates == UNION {[1..n -> Symbols] : n \in 0..MaxLen}

\* `    foo ${x} bar`
FooBar == <<SP, SP, SP, SP, "f", "o", "o", SP, "${x}", SP, "b", "a", "r">>

\* `  return ${m}`, m serializing to "one\ntwo"
ReturnOneTwo == <<SP, SP, "r", "e", "t", "u", "r", "n", SP, "${onetwo}">>

\* blank first line, "    foo", "    bar", last line of the given width
FooBarLines(w) ==
    <<LF, SP, SP, SP, SP, "f", "o", "o", LF, SP, SP, SP, SP, "b", "a", "r", LF>>
    \o PadStart(w)

\* Foo / ${undefined} / ${undefined} / <empty line> / Bar, closing line of width w
FooUndefinedBar(w) ==
    <<LF, SP, SP, "F", "o", "o", LF, SP, SP, "${undefined}", LF, SP, SP, "${undefined}",
      LF, LF, SP, SP, "B", "a", "r", LF>> \o PadStart(w)

\* two substitutions on one line, the second one of two lines
TwoOnOneLine == <<LF, SP, SP, "${x}", "${onetwo}", LF>>

\* a line break written as "\r\n" and a tab
CrLfTab == <<CR, LF, TAB, "a", CR, LF>>

\* `generatedContent` in the four forms of the documentation of expandToNode
Generated1 == <<"g", "e", "n">>
Generated2 == <<"g", "e", "n", LF, SP, SP>>
Generated3 == <<LF, SP, SP, SP, SP, "g", "e", "n">>
Generated4 == <<LF, SP, SP, SP, SP, "g", "e", "n", LF, SP, SP>>

\* blank first line, "  a", "    b", "  ${x} c", last line of length zero
NestedLines ==
    <<LF, SP, SP, "a", LF, SP, SP, SP, SP, "b", LF, SP, SP, "${x}", SP, "c", LF>>

ScenarioTemplates ==
    {FooBar, ReturnOneTwo, FooBarLines(0), FooBarLines(2), FooBarLines(4),
     FooUndefinedBar(0), FooUndefinedBar(1), TwoOnOneLine, CrLfTab, NestedLines,
     Generated1, Generated2, Generated3, Generated4,
     <<"a", "${e}", "${null}">>}

Templates == EnumeratedTemplates \cup ScenarioTemplates

-----------------------------------------------------------------------------
(* The call expandToNode(staticParts, ...substitutions), followed by the   *)
(* serialization of the node it returns                                    *)

NoJoin ==
    /\ iterable = <<>>
    /\ toGenerated = "String"
    /\ options = [prefix |-> FALSE, suffix |-> FALSE, separator |-> Undefined,
                  appendNewLineIfNotEmpty |-> FALSE]
    /\ index = 0
    /\ result = Undefined
    /\ calls = <<>>

Init ==
    /\ \E t \in Templates :
          /\ staticParts = PartsOf(t)
          /\ substitutions = SubstsOf(t)
    /\ pc = "start"
    /\ templateProps = NoProps
    /\ splitAndMerged = <<>>
    /\ partIdx = 0
    /\ res = InitRes
    /\ segIdx = 0
    /\ output = <<>>
    /\ NoJoin

joinVars == <<iterable, toGenerated, options, index, result, calls>>

\* const templateProps = findIndentationAndTemplateStructure(staticParts)
FindStructure ==
    /\ pc = "start"
    /\ templateProps' = FindIndentationAndTemplateStructure(staticParts)
    /\ pc' = IF templateProps'.threw THEN "threw" ELSE "split"
    /\ UNCHANGED <<staticParts, substitutions, splitAndMerged, partIdx, res, segIdx,
                   output, joinVars>>

\* staticParts.forEach((part, i) => splitAndMerged.push(...))
SplitNextPart ==
    /\ pc = "split"
    /\ partIdx < Len(staticParts)
    /\ splitAndMerged' =
          splitAndMerged \o SplitPart(staticParts, substitutions, partIdx, templateProps)
    /\ partIdx' = partIdx + 1
    /\ UNCHANGED <<staticParts, substitutions, pc, templateProps, res, segIdx,
                   output, joinVars>>

\* the end of splitTemplateLinesAndMergeWithSubstitions
TrimLastLine ==
    /\ pc = "split"
    /\ partIdx = Len(staticParts)
    /\ splitAndMerged' = TrimLastItem(splitAndMerged, templateProps)
    /\ pc' = "compose"
    /\ UNCHANGED <<staticParts, substitutions, templateProps, partIdx, res, segIdx,
                   output, joinVars>>

\* one call of the reducer of composeFinalGeneratorNode
ComposeSegment ==
    /\ pc = "compose"
    /\ segIdx < Len(splitAndMerged)
    /\ res' = ComposeStep(res, splitAndMerged, segIdx)
    /\ segIdx' = segIdx + 1
    /\ UNCHANGED <<staticParts, substitutions, pc, templateProps, splitAndMerged,
                   partIdx, output, joinVars>>

\* return result.node, and the caller serializes the node
ReturnAndSerialize ==
    /\ pc = "compose"
    /\ segIdx = Len(splitAndMerged)
    /\ output' = Serialize(res.node)
    /\ pc' = "done"
    /\ UNCHANGED <<staticParts, substitutions, templateProps, splitAndMerged,
                   partIdx, res, segIdx, joinVars>>

Next ==
    \/ FindStructure
    \/ SplitNextPart
    \/ TrimLastLine
    \/ ComposeSegment
    \/ ReturnAndSerialize

Spec == Init /\ [][Next]_vars

-----------------------------------------------------------------------------
(* joinToNode and reduceWithIsLast *)

\* the callbacks toGenerated of the checked calls:
\*   "String"  : String, the default
\*   "Guarded" : e => e && String(e)
ToGenerated(fn, it, i, isLast) ==
    IF fn = "Guarded" /\ (it.kind = "undefined" \/ (it.kind = "string" /\ it.text = <<>>))
    THEN it
    ELSE Str(ToJsString(it))

\* prefix && prefix(it, i, isLast), for the prefix (e, i, isLast) => '('
PrefixOf(opts, it, i, isLast) == IF opts.prefix THEN Str(<<"(">>) ELSE Undefined

\* suffix && suffix(it, i, isLast), for the suffix (e, i, isLast) => ')'
SuffixOf(opts, it, i, isLast) == IF opts.suffix THEN Str(<<")">>) ELSE Undefined

\* JoinCallback creating no Composite for an element that contributes nothing
JoinCallbackSkipping(node, it, i, isLast, fn, opts) ==
    LET content == ToGenerated(fn, it, i, isLast)
        n0 == IF node.kind = "undefined" THEN CompositeNode(<<>>) ELSE node
        n1 == AppendTo(n0, PrefixOf(opts, it, i, isLast))
        n2 == AppendTo(n1, content)
        n3 == AppendTo(n2, SuffixOf(opts, it, i, isLast))
        n4 == AppendIf(n3, ~isLast /\ content.kind # "undefined", opts.separator)
    IN  IF node.kind = "undefined" /\ content.kind = "undefined"
           /\ ~opts.prefix /\ ~opts.suffix
        THEN node
        ELSE appendNewLineIfNotEmptyIf(n4, ~IsEmpty(n4) /\ opts.appendNewLineIfNotEmpty)

\* JoinCallback appending the separator after the last element too
JoinCallbackSeparatorAfterLast(node, it, i, isLast, fn, opts) ==
    LET content == ToGenerated(fn, it, i, isLast)
        n0 == IF node.kind = "undefined" THEN CompositeNode(<<>>) ELSE node
        n1 == AppendTo(n0, PrefixOf(opts, it, i, isLast))
        n2 == AppendTo(n1, content)
        n3 == AppendTo(n2, SuffixOf(opts, it, i, isLast))
        n4 == AppendIf(n3, content.kind # "undefined", opts.separator)
    IN  appendNewLineIfNotEmptyIf(n4, ~IsEmpty(n4) /\ opts.appendNewLineIfNotEmpty)

\* JoinCallback appending the NewLine without looking at node.isEmpty()
JoinCallbackNewLineAlways(node, it, i, isLast, fn, opts) ==
    LET content == ToGenerated(fn, it, i, isLast)
        n0 == IF node.kind = "undefined" THEN CompositeNode(<<>>) ELSE node
        n1 == AppendTo(n0, PrefixOf(opts, it, i, isLast))
        n2 == AppendTo(n1, content)
        n3 == AppendTo(n2, SuffixOf(opts, it, i, isLast))
        n4 == AppendIf(n3, ~isLast /\ content.kind # "undefined", opts.separator)
    IN  appendNewLineIfNotEmptyIf(n4, opts.appendNewLineIfNotEmpty)

\* the callback joinToNode hands to reduceWithIsLast
JoinCallback(node, it, i, isLast, fn, opts) ==
    LET content == ToGenerated(fn, it, i, isLast)
        n0 == IF node.kind = "undefined" THEN CompositeNode(<<>>) ELSE node
        n1 == AppendTo(n0, PrefixOf(opts, it, i, isLast))
        n2 == AppendTo(n1, content)
        n3 == AppendTo(n2, SuffixOf(opts, it, i, isLast))
        n4 == AppendIf(n3, ~isLast /\ content.kind # "undefined", opts.separator)
    IN  appendNewLineIfNotEmptyIf(n4, ~IsEmpty(n4) /\ opts.appendNewLineIfNotEmpty)

\* Boolean(nextNext.done) in the iteration with the given index
IsLastAt(it, i) == i + 1 >= Len(it)

Elements == {Str(<<"a">>), Str(<<"b">>), Str(<<>>), Undefined}

Iterables ==
    UNION {[1..n -> Elements] : n \in 0..MaxItems}
    \cup {<<Str(<<"a">>), Str(<<"b">>), Str(<<"c">>)>>}

Separator == Str(<<",", SP>>)

JoinOptions ==
    [prefix : BOOLEAN, suffix : BOOLEAN, separator : {Undefined, Separator},
     appendNewLineIfNotEmpty : BOOLEAN]

NoExpand ==
    /\ staticParts = <<>>
    /\ substitutions = <<>>
    /\ templateProps = NoProps
    /\ splitAndMerged = <<>>
    /\ partIdx = 0
    /\ res = InitRes
    /\ segIdx = 0

InitJoin ==
    /\ iterable \in Iterables
    /\ toGenerated \in {"String", "Guarded"}
    /\ options \in JoinOptions
    /\ index = 0
    /\ result = Undefined
    /\ calls = <<>>
    /\ pc = "loop"
    /\ output = <<>>
    /\ NoExpand

expandVars ==
    <<staticParts, substitutions, templateProps, splitAndMerged, partIdx, res, segIdx>>

\* one iteration of the while loop of reduceWithIsLast
JoinStep ==
    /\ pc = "loop"
    /\ index < Len(iterable)
    /\ LET isLast == IsLastAt(iterable, index)
       IN  /\ result' = JoinCallback(result, iterable[index + 1], index, isLast,
                                     toGenerated, options)
           /\ calls' = Append(calls, <<index, isLast>>)
    /\ index' = index + 1
    /\ UNCHANGED <<pc, output, iterable, toGenerated, options, expandVars>>

\* return result, and the caller serializes the node if there is one
JoinReturn ==
    /\ pc = "loop"
    /\ index = Len(iterable)
    /\ pc' = "done"
    /\ output' = IF result.kind = "undefined" THEN <<>> ELSE Serialize(result)
    /\ UNCHANGED <<index, result, calls, iterable, toGenerated, options, expandVars>>

NextJoin ==
    \/ JoinStep
    \/ JoinReturn

SpecJoin == InitJoin /\ [][NextJoin]_vars

-----------------------------------------------------------------------------
(* Properties *)

\* the call of expandToNode has returned and its node is serialized
Done == pc = "done"

\* the template has no substitutions; its text is staticParts[1]
IsStatic == Len(staticParts) = 1 /\ substitutions = <<>>

IsBlank(s) == Len(Trim(s)) = 0

RECURSIVE CountLF(_)
CountLF(s) ==
    IF s = <<>> THEN 0 ELSE (IF Head(s) = LF THEN 1 ELSE 0) + CountLF(Tail(s))

\* s without its leading space characters
Unindented(s) == Substring(s, LeadingSpaces(s))

\* a text without line breaks that starts with a non-whitespace character
IsContent(c) == c # <<>> /\ ~IsWs(c[1]) /\ Len(SplitLines(c)) = 1

\* The text t is one of the four forms of `generatedContent` that the
\* documentation of expandToNode lists, for the content c.
IsDocumentedForm(t, c) ==
    LET lines == SplitLines(t)
        n == Len(lines)
    IN  /\ IsContent(c)
        /\ \/ n = 1 /\ lines[1] = c
           \/ n = 2 /\ lines[1] = c /\ IsBlank(lines[2])
           \/ n = 2 /\ IsBlank(lines[1]) /\ LeadingSpaces(lines[2]) > 0
                    /\ Unindented(lines[2]) = c
           \/ n = 3 /\ IsBlank(lines[1]) /\ LeadingSpaces(lines[2]) > 0
                    /\ Unindented(lines[2]) = c
                    /\ IsBlank(lines[3]) /\ Len(lines[3]) < LeadingSpaces(lines[2])

\* the content of a text that is of a documented form
ContentOf(t) ==
    LET lines == SplitLines(t)
    IN  IF Len(lines) > 1 /\ IsBlank(lines[1]) THEN Unindented(lines[2]) ELSE lines[1]

\* C1: for a text C without line breaks or leading whitespace, each of the
\* four documented template forms (C; C, line break, blank last line; blank
\* first line, line break, indented C; the same followed by a line break and
\* a blank last line shorter than the indentation) serializes to exactly C.
C1_DocumentedFormsYieldContent ==
    (Done /\ IsStatic
       /\ Len(SplitLines(staticParts[1])) <= 3
       /\ IsDocumentedForm(staticParts[1], ContentOf(staticParts[1])))
    => output = ContentOf(staticParts[1])

\* the number of line breaks of the static template t that the rule of the
\* documentation keeps: all but the one ending a blank first line and the
\* one preceding a blank last line
KeptLineBreaks(t) ==
    LET lines == SplitLines(t)
        n == Len(lines)
        k == (n - 1) - (IF IsBlank(lines[1]) THEN 1 ELSE 0)
                     - (IF IsBlank(lines[n]) THEN 1 ELSE 0)
    IN  IF k < 0 THEN 0 ELSE k

\* C2: for a multi-line template the last line and the line break before it
\* contribute nothing to the output if and only if that line is blank: the
\* output of a static template has one line break per line break of the
\* template, less the one of a blank first line and the one of a blank last
\* line; and blank line, "    foo", "    bar", blank last line gives
\* "foo\nbar" whatever the width of the last line.
C2_BlankLastLineIgnored ==
    /\ (Done /\ IsStatic /\ Len(SplitLines(staticParts[1])) > 1)
          => CountLF(output) = KeptLineBreaks(staticParts[1])
    /\ (Done /\ IsStatic /\ staticParts[1] \in {FooBarLines(0), FooBarLines(2)})
          => output = <<"f", "o", "o", LF, "b", "a", "r">>

\* C10: a template without substitutions whose text is whitespace and line
\* breaks only is expanded to a node, and that node serializes to the empty
\* string.
C10_BlankTemplateYieldsNothing ==
    (pc \in {"done", "threw"} /\ IsStatic /\ \A k \in 1..Len(staticParts[1]) :
                                                IsWs(staticParts[1][k]))
    => (Done /\ output = <<>>)

\* expandToNode was called with the template t
IsTemplate(t) == staticParts = PartsOf(t) /\ substitutions = SubstsOf(t)

\* the template has one line
IsSingleLine == Len(SplitLines(JoinParts(staticParts))) = 1

FooXBar == <<"f", "o", "o", SP, "X", SP, "b", "a", "r">>

\* C3 as stated: `    foo ${x} bar` with x = "X" serializes to "foo X bar",
\* the four leading spaces being stripped as common indentation.
C3_LeadingSpacesStripped ==
    (Done /\ IsTemplate(FooBar)) => output = FooXBar

\* C3 as amended: a template of one line has the indentation 0, and
\* `    foo ${x} bar` with x = "X" serializes to "    foo X bar", the four
\* leading spaces being kept.
C3_SingleLineKeepsLeadingSpaces ==
    /\ (pc # "start" /\ IsSingleLine) => templateProps.indentation = 0
    /\ (Done /\ IsTemplate(FooBar)) => output = PadStart(4) \o FooXBar

C3_Witness ==
    Done /\ IsTemplate(FooBar) /\ templateProps.indentation = 0
         /\ output = PadStart(4) \o FooXBar

\* C4 as stated: `  return ${m}` with m serializing to "one\ntwo" serializes
\* to "return one\n       two", the second line indented by seven spaces.
C4_IndentedToColumn ==
    (Done /\ IsTemplate(ReturnOneTwo))
    => output = <<"r", "e", "t", "u", "r", "n", SP, "o", "n", "e", LF>>
                 \o PadStart(7) \o <<"t", "w", "o">>

\* the leading whitespace of s, as spaces
LeadingWhitespace(s) == PadStart(Len(s) - Len(TrimLeft(s)))

\* C4 as amended: a substitution of several lines that is spliced in a line
\* inherits the leading whitespace of that line, not its column:
\* `  return ${m}` serializes to "  return one\n  two", and a one-line
\* template `p${m}` with m serializing to "b\nc" serializes to p, "b", a line
\* break, the leading whitespace of p, "c".
C4_IndentedAsLine ==
    /\ (Done /\ IsTemplate(ReturnOneTwo))
          => output = <<SP, SP, "r", "e", "t", "u", "r", "n", SP, "o", "n", "e", LF,
                        SP, SP, "t", "w", "o">>
    /\ (Done /\ IsSingleLine /\ Len(staticParts) = 2 /\ staticParts[2] = <<>>
             /\ substitutions = <<MultiLine>>)
          => output = staticParts[1] \o <<"b", LF>>
                      \o LeadingWhitespace(staticParts[1]) \o <<"c">>

C4_Witness ==
    Done /\ IsTemplate(ReturnOneTwo) /\ CountLF(output) = 1 /\ Len(output) = 18

\* composeFinalGeneratorNode is running or has returned
Composing == pc \in {"compose", "done"}

\* What one line of segments (the items between two NEWLINE markers) adds to
\* the root: an IndentNode holding all its content if the line begins with a
\* string that has leading whitespace, its content otherwise.
LineGroup(items) ==
    LET content == SelectSeq(items, LAMBDA x : ~isUndefinedSegmentMarker(x))
    IN  IF /\ items # <<>>
           /\ isString(items[1])
           /\ LeadingWhitespace(items[1].text) # <<>>
        THEN <<IndentNode(LeadingWhitespace(items[1].text), FALSE, content)>>
        ELSE content

\* the index of the first NEWLINE marker in sm[from..n], n + 1 if none
RECURSIVE LineEnd(_, _, _)
LineEnd(sm, from, n) ==
    IF from > n \/ isNewLineMarker(sm[from]) THEN from ELSE LineEnd(sm, from + 1, n)

\* the children of the root for the segments sm[from..n], line by line
RECURSIVE RootByLines(_, _, _)
RootByLines(sm, from, n) ==
    IF from > n THEN <<>>
    ELSE LET e == LineEnd(sm, from, n)
         IN  LineGroup(SubSeq(sm, from, e - 1))
             \o (IF e <= n THEN <<NewLineNode(FALSE)>> \o RootByLines(sm, e + 1, n)
                 ELSE <<>>)

\* contents with every NewLine taken as unconditional
IgnoringCondition(contents) ==
    [k \in 1..Len(contents) |->
        IF contents[k].kind = "newline" THEN NewLineNode(FALSE) ELSE contents[k]]

\* the index at which the line holding sm[n] begins
RECURSIVE LineStart(_, _)
LineStart(sm, n) ==
    IF n = 0 \/ isNewLineMarker(sm[n]) THEN n + 1 ELSE LineStart(sm, n - 1)

\* an IndentNode is open after the segments sm[1..n]
IndentIsOpen(sm, n) ==
    LET b == LineStart(sm, n)
    IN  b <= n /\ isString(sm[b]) /\ LeadingWhitespace(sm[b].text) # <<>>

\* The structure composeFinalGeneratorNode builds: per line an IndentNode
\* (indentImmediately = false, indentation = the leading whitespace) if and
\* only if the line begins with a string that has leading whitespace, which
\* holds every content segment of the line; the NEWLINE marker closes it.
IndentPerLine ==
    Composing =>
       /\ IgnoringCondition(res.node.contents) = RootByLines(splitAndMerged, 1, segIdx)
       /\ (res.indented # 0) = IndentIsOpen(splitAndMerged, segIdx)
       /\ res.indented # 0 => res.indented = Len(res.node.contents)

\* no IndentNode of the root holds a substitution that follows another one
NoIndentAfterSubstitution ==
    \A k \in 1..Len(res.node.contents) :
        LET c == res.node.contents[k]
        IN  c.kind = "indent" =>
               \A q \in 1..Len(c.contents) : \A p \in 1..(q - 1) :
                   ~(isGeneratorNode(c.contents[p]) /\ isGeneratorNode(c.contents[q]))

ReturnOneTwoOutput ==
    <<SP, SP, "r", "e", "t", "u", "r", "n", SP, "o", "n", "e", LF, SP, SP, "t", "w", "o">>

\* C5 as stated: an IndentNode is opened only by a non-empty string with
\* leading whitespace that is the first item or follows a NEWLINE marker, its
\* indentation is that whitespace, it takes every later content segment of
\* the line and the NEWLINE marker closes it; the lines after the first of a
\* substitution following `  return ` are indented as `return` is; and a
\* substitution preceded on its line by another substitution is not
\* indented.
C5_IndentOnlyAfterStaticText ==
    /\ IndentPerLine
    /\ (Done /\ IsTemplate(ReturnOneTwo)) => output = ReturnOneTwoOutput
    /\ Done => NoIndentAfterSubstitution

\* C5 as amended: the same structure; a substitution preceded on its line
\* by another substitution is not indented if the line begins with a
\* substitution (`${x}${m}` at the common indentation gives "Xone\ntwo\n"),
\* and is indented by the leading whitespace of the line if the line begins
\* with such whitespace (` ${x}${m}`, m being "b\nc", gives " Xb\n c").
C5_IndentOpenedByLineStart ==
    /\ IndentPerLine
    /\ (Done /\ IsTemplate(ReturnOneTwo)) => output = ReturnOneTwoOutput
    /\ (Done /\ IsTemplate(TwoOnOneLine))
          => output = <<"X", "o", "n", "e", LF, "t", "w", "o", LF>>
    /\ (Done /\ IsTemplate(<<SP, "${x}", "${m}">>))
          => output = <<SP, "X", "b", LF, SP, "c">>

C5_Witness ==
    /\ Done
    /\ IsTemplate(<<SP, "${x}", "${m}">>)
    /\ res.node.contents[1].kind = "indent"
    /\ Len(res.node.contents[1].contents) = 3

\* the indices of the NEWLINE markers among sm[1..n]
NewLineIndices(sm, n) ==
    SelectSeq([k \in 1..n |-> k], LAMBDA k : isNewLineMarker(sm[k]))

\* the NewLine nodes among the children of the root
RootNewLines == SelectSeq(res.node.contents, LAMBDA c : c.kind = "newline")

\* every NEWLINE marker has become a NewLine of the root: a conditional one
\* after an UNDEFINED_SEGMENT marker or a substitution node, an
\* unconditional one at index 0, after a NEWLINE marker or after a string
NewLineKinds ==
    LET sm == splitAndMerged
        idx == NewLineIndices(sm, segIdx)
    IN  /\ Len(RootNewLines) = Len(idx)
        /\ \A q \in 1..Len(idx) :
              LET k == idx[q]
              IN  /\ RootNewLines[q].ifNotEmpty =
                        (k > 1 /\ (isUndefinedSegmentMarker(sm[k - 1])
                                    \/ isGeneratorNode(sm[k - 1])))
                  /\ (~RootNewLines[q].ifNotEmpty) =
                        (k = 1 \/ isNewLineMarker(sm[k - 1]) \/ isString(sm[k - 1]))

\* the line ended by the NEWLINE marker at k holds absent substitutions and
\* whitespace only, and ends with an absent substitution
IsAbsentLine(sm, k) ==
    /\ k > 1
    /\ isUndefinedSegmentMarker(sm[k - 1])
    /\ \A j \in LineStart(sm, k - 1)..(k - 1) :
          \/ isUndefinedSegmentMarker(sm[j])
          \/ (isString(sm[j]) /\ IsBlank(sm[j].text))

\* the number of NEWLINE markers that end a line of absent substitutions
AbsentLines(sm) ==
    Cardinality({k \in 1..Len(sm) : isNewLineMarker(sm[k]) /\ IsAbsentLine(sm, k)})

OnlyAbsentSubstitutions ==
    \A k \in 1..Len(substitutions) : substitutions[k].kind = "undefined"

FooBarBlankLine == <<"F", "o", "o", LF, LF, "B", "a", "r">>

\* C6: the NEWLINE marker after an UNDEFINED_SEGMENT marker or a
\* substitution node becomes a conditional NewLine, the one at index 0,
\* after a NEWLINE marker or after a string an unconditional one; a line
\* that holds absent substitutions only gives no line of output (the output
\* of a template whose substitutions are all absent has one line break per
\* NEWLINE marker, less those ending such lines); and
\* Foo / ${undefined} / ${undefined} / <empty line> / Bar serializes to Foo,
\* one empty line, Bar.
C6_AbsentLinesEmitNothing ==
    /\ Composing => NewLineKinds
    /\ (Done /\ OnlyAbsentSubstitutions)
          => CountLF(output) = Len(NewLineIndices(splitAndMerged, Len(splitAndMerged)))
                               - AbsentLines(splitAndMerged)
    /\ (Done /\ IsTemplate(FooUndefinedBar(1))) => output = FooBarBlankLine
    /\ (Done /\ IsTemplate(FooUndefinedBar(0))) => output = FooBarBlankLine \o <<LF>>

C6_Witness ==
    /\ Done
    /\ IsTemplate(FooUndefinedBar(1))
    /\ AbsentLines(splitAndMerged) = 2
    /\ output = FooBarBlankLine

-----------------------------------------------------------------------------
(* Properties of joinToNode *)

\* what toGenerated returns for the k-th element (k from 1)
ContentAt(k) == ToGenerated(toGenerated, iterable[k], k - 1, k = Len(iterable))

IsAbsent(x) == x.kind = "undefined"

NothingContributes ==
    /\ ~options.prefix
    /\ ~options.suffix
    /\ \A k \in 1..Len(iterable) : IsAbsent(ContentAt(k))

\* C7 as stated: joinToNode returns undefined, not a Composite, whenever
\* toGenerated is absent for every element and there is no prefix and no
\* suffix, be the iterable empty or not.
C7_AbsentWhenNothingContributes ==
    (Done /\ NothingContributes) => IsAbsent(result)

\* C7 as amended: joinToNode returns undefined exactly for the empty
\* iterable; the Composite is created with the first element, whatever it
\* contributes, and for an iterable that is not empty and of which nothing
\* contributes the result is a Composite without children, serializing to
\* the empty string.
C7_AbsentOnlyForEmptyIterable ==
    /\ Done => (IsAbsent(result) = (iterable = <<>>))
    /\ pc = "loop" => (IsAbsent(result) = (index = 0))
    /\ (Done /\ NothingContributes /\ iterable # <<>>)
          => (result = CompositeNode(<<>>) /\ output = <<>>)

C7_Witness ==
    /\ Done
    /\ iterable = <<Undefined, Undefined>>
    /\ toGenerated = "Guarded"
    /\ NothingContributes
    /\ result = CompositeNode(<<>>)

\* the text of a Generated string, nothing for an absent value
TextOf(x) == IF IsAbsent(x) THEN <<>> ELSE x.text

\* the text the k-th element contributes, with its separator
PieceAt(k) ==
    (IF options.prefix THEN <<"(">> ELSE <<>>)
    \o TextOf(ContentAt(k))
    \o (IF options.suffix THEN <<")">> ELSE <<>>)
    \o (IF k < Len(iterable) /\ ~IsAbsent(ContentAt(k)) THEN TextOf(options.separator)
        ELSE <<>>)

\* the text of the elements k..n
RECURSIVE JoinedText(_, _)
JoinedText(k, n) == IF k > n THEN <<>> ELSE PieceAt(k) \o JoinedText(k + 1, n)

\* the children of the result that are the separator
SeparatorsIn(node) == SelectSeq(node.contents, LAMBDA c : c = Separator)

Joining == pc = "loop" \/ (Done /\ staticParts = <<>>)

ABC == <<Str(<<"a">>), Str(<<"b">>), Str(<<"c">>)>>

PlainOptions(sep, nl) ==
    [prefix |-> FALSE, suffix |-> FALSE, separator |-> sep,
     appendNewLineIfNotEmpty |-> nl]

\* C8: the callback is called with the indices 0..n-1 in order and with
\* isLast true for the last element only; the separator is appended after
\* an element exactly if the element is not the last one and its content is
\* not absent, so that without conditional line breaks the result is the
\* text of the elements with the separator after each such element, and
\* ['a', 'b', 'c'] with String and the separator ", " gives "a, b, c".
C8_SeparatorAfterAllButLast ==
    /\ Joining =>
          /\ Len(calls) = index
          /\ \A k \in 1..Len(calls) : calls[k] = <<k - 1, k = Len(iterable)>>
    /\ Done => index = Len(iterable)
    /\ (Joining /\ ~IsAbsent(result) /\ options.separator = Separator)
          => Len(SeparatorsIn(result)) =
                Cardinality({k \in 1..index : k < Len(iterable) /\ ~IsAbsent(ContentAt(k))})
    /\ (Done /\ ~options.appendNewLineIfNotEmpty)
          => output = JoinedText(1, Len(iterable))
    /\ (Done /\ iterable = ABC /\ toGenerated = "String"
             /\ options = PlainOptions(Separator, FALSE))
          => output = <<"a", ",", SP, "b", ",", SP, "c">>

C8_Witness ==
    /\ Done
    /\ iterable = <<Str(<<"a">>), Undefined, Str(<<"b">>)>>
    /\ toGenerated = "Guarded"
    /\ options = PlainOptions(Separator, FALSE)
    /\ output = <<"a", ",", SP, "b">>

\* the NewLine children of the result
NewLinesIn(node) == SelectSeq(node.contents, LAMBDA c : c.kind = "newline")

\* C9: with appendNewLineIfNotEmpty a conditional NewLine is appended after
\* the prefix, content, suffix and separator of an element exactly if the
\* Composite is not empty then (the elements so far have contributed some
\* text), and none without that option; so no NewLine precedes the first
\* text, and ['a', 'b', 'c'] with String and the separator ", " gives
\* "a, \nb, \nc\n".
C9_NewLineOnlyAfterContent ==
    /\ (Joining /\ ~IsAbsent(result)) =>
          /\ Len(NewLinesIn(result)) =
                (IF options.appendNewLineIfNotEmpty
                 THEN Cardinality({k \in 1..index : JoinedText(1, k) # <<>>})
                 ELSE 0)
          /\ \A q \in 1..Len(result.contents) :
                result.contents[q].kind = "newline" =>
                   /\ result.contents[q].ifNotEmpty
                   /\ \E p \in 1..(q - 1) :
                         /\ isString(result.contents[p])
                         /\ result.contents[p].text # <<>>
    /\ (Done /\ iterable = ABC /\ toGenerated = "String"
             /\ options = PlainOptions(Separator, TRUE))
          => output = <<"a", ",", SP, LF, "b", ",", SP, LF, "c", LF>>

C9_Witness ==
    /\ Done
    /\ iterable = <<Str(<<>>), Str(<<"a">>)>>
    /\ toGenerated = "String"
    /\ options = PlainOptions(Undefined, TRUE)
    /\ Len(NewLinesIn(result)) = 1
    /\ output = <<"a", LF>>

\* the call has the arity of a tag function call: one substitution between
\* each two static parts
IsWellFormed == Len(substitutions) = Len(staticParts) - 1

\* the call of expandToNode has ended with a TypeError
Threw == pc = "threw"

\* C11: expandToNode is total on well-formed input: whenever there is one
\* substitution less than there are static parts, the call never raises an
\* error, and the value it returns is a Composite; this includes the empty
\* template and the template of two line breaks only.
C11_ExpandToNodeIsTotal ==
    IsWellFormed =>
       /\ ~Threw
       /\ (Done => res.node.kind = "composite")

\* the characters of s that are not whitespace, in their order
NonWhitespaceOf(s) == SelectSeq(s, LAMBDA c : ~IsWs(c))

\* the static text held by the items of splitAndMerged, in their order
RECURSIVE StaticTextOf(_)
StaticTextOf(sm) ==
    IF sm = <<>> THEN <<>>
    ELSE (IF isString(Head(sm)) THEN Head(sm).text ELSE <<>>) \o StaticTextOf(Tail(sm))

\* the text of the first n static parts
RECURSIVE TextOfParts(_, _)
TextOfParts(parts, n) ==
    IF n = 0 THEN <<>> ELSE TextOfParts(parts, n - 1) \o parts[n]

\* the structure of the template is known and the parts are being split, or
\* have been
Splitting == pc \in {"split", "compose", "done"}

\* C12: stripping the common indentation removes whitespace only and keeps
\* the relative indentation: the static text collected from the parts handled
\* so far has all their non-whitespace characters, in order; and of every
\* static part the first piece is kept as it is, while each further line is
\* kept as it is if it is shorter than the indentation and otherwise loses
\* exactly its first `indentation` characters, all of them whitespace.
C12_StrippingRemovesOnlyIndentation ==
    Splitting =>
       /\ NonWhitespaceOf(StaticTextOf(splitAndMerged))
             = NonWhitespaceOf(TextOfParts(staticParts, partIdx))
       /\ \A i \in 1..Len(staticParts) :
             LET lines == SplitLines(staticParts[i])
                 indentation == templateProps.indentation
             IN  \A j \in 1..Len(lines) :
                    LET e == lines[j]
                        stripped == StripLine(e, j - 1, indentation)
                    IN  IF j = 1 \/ Len(e) < indentation
                        THEN stripped = e
                        ELSE /\ Len(stripped) = Len(e) - indentation
                             /\ e = SubSeq(e, 1, indentation) \o stripped
                             /\ \A k \in 1..indentation : IsWs(e[k])

\* "  a", "    b" and "  ${x} c" with the indentation 2: the lines lose two
\* spaces each, " c" after the substitution keeps its space, and the last
\* line, of length zero, is passed through
C12_Witness ==
    /\ Done
    /\ IsTemplate(NestedLines)
    /\ templateProps.indentation = 2
    /\ splitAndMerged =
          <<Str(<<"a">>), NEWLINE, Str(<<SP, SP, "b">>), NEWLINE,
            CompositeNode(<<Str(<<"X">>)>>), Str(<<SP, "c">>), NEWLINE>>

====
